---------------------------- MODULE Spec2Model ----------------------------
(***************************************************************************)
(* Data-access layer of the blog backend (src/app/crud.py) over the three  *)
(* tables users, posts and comments (src/app/models/comment_model.py).     *)
(*                                                                         *)
(* Every repository operation is one action.  The relational store is the *)
(* three functions users, posts, comments from primary key to row; the     *)
(* session handed to an operation is represented by the state of its       *)
(* transaction when the operation returns (txn) and the value the          *)
(* operation returned or the fault it raised (ret).                        *)
(*                                                                         *)
(* Optional values (Python's None / a value) are sequences of length 0 / 1.*)
(* A partial-update payload is a function whose DOMAIN is the set of       *)
(* explicitly set fields (model_dump(exclude_unset=True)).                 *)
(* Passwords and digests are sequences of one-character strings.           *)
(***************************************************************************)
EXTENDS Integers, Sequences, FiniteSets, TLC

\* ------------------------------------------------------------ bounds
\* Rows inserted over a run, all tables together.
MaxRows == 4
\* Largest value of the wall clock (datetime.utcnow) the model reaches.
MaxTime == 1
\* Largest skip and limit of a listing.
MaxPage == 2

\* bcrypt hashes the first 72 bytes of the secret (scheme of pwd_context).
BcryptMaxBytes == 72

\* ------------------------------------------------------------ values
None == <<>>
Some(v) == <<v>>

Rep(n) == [i \in 1..n |-> "a"]
Take(s, n) == IF Len(s) <= n THEN s ELSE SubSeq(s, 1, n)

Ids == 1..(MaxRows + 1)
Times == 0..MaxTime

\* ------------------------------------------------------------ password hasher
\* pwd_context.hash: a salted bcrypt digest; the salt is drawn per call.
hash_password(password, salt) ==
    <<"$2b$", salt>> \o Take(password, BcryptMaxBytes)

\* pwd_context.verify: re-hash with the salt embedded in the digest.
verify_password(plain_password, hashed_password) ==
    /\ Len(hashed_password) >= 2
    /\ hashed_password[1] = "$2b$"
    /\ hashed_password = hash_password(plain_password, hashed_password[2])

\* ------------------------------------------------------------ state
VARIABLES
    users,      \* id -> [username, email, hashed_password]
    posts,      \* id -> [title, content, owner_id, created_at]
    comments,   \* id -> [content, post_id, owner_id, created_at]
    nextId,     \* per table, the next primary key the store assigns
    now,        \* the wall clock read by the created_at defaults
    op,         \* the operation that ran last
    txn,        \* the session's transaction when the operation returned
    ret,        \* what the operation returned, or the fault it raised
    cascaded    \* history: comment ids removed by the cascade of a delete_post

vars == <<users, posts, comments, nextId, now, op, txn, ret, cascaded>>
store == <<users, posts, comments, nextId>>

\* ------------------------------------------------------------ results
Fault == [kind |-> "fault", val |-> <<>>]
Absent == [kind |-> "none", val |-> <<>>]
Bool(b) == [kind |-> "bool", val |-> <<b>>]
Row(r) == [kind |-> "row", val |-> <<r>>]
Rows(rs) == [kind |-> "rows", val |-> rs]

\* ------------------------------------------------------------ projections
\* schemas.User / schemas.UserRead: the public shape.
UserRead(id) ==
    [id |-> id, username |-> users[id].username, email |-> users[id].email]
\* schemas.UserFullInfo: the privileged shape, with the credential.
UserFullInfo(id) ==
    [id |-> id, username |-> users[id].username, email |-> users[id].email,
     hashed_password |-> users[id].hashed_password]
\* schemas.UserBase built from the request object.
UserBase(username, email, password) ==
    [username |-> username, email |-> email]
PostRead(tbl, id) ==
    [id |-> id, title |-> tbl[id].title, content |-> tbl[id].content,
     owner_id |-> tbl[id].owner_id, created_at |-> tbl[id].created_at]
CommentRead(tbl, id) ==
    [id |-> id, content |-> tbl[id].content, post_id |-> tbl[id].post_id,
     owner_id |-> tbl[id].owner_id, created_at |-> tbl[id].created_at]

\* ------------------------------------------------------------ session
\* db.execute(select ...): the session begins a transaction if none is open.
Executed == "open"
\* db.commit() that succeeded: the transaction is ended.
Committed == "none"
\* db.refresh(obj) after the commit: a SELECT, which begins a transaction.
Refreshed == Executed
\* db.commit() whose flush raised: the transaction is rolled back in the
\* store and stays on the session, inactive, until the caller rolls it back.
FlushFailed == "inactive"

\* ------------------------------------------------------------ storage
Extend(tbl, id, row) == [k \in DOMAIN tbl \cup {id} |-> IF k = id THEN row ELSE tbl[k]]
Remove(tbl, ids) == [k \in DOMAIN tbl \ ids |-> tbl[k]]

\* users.username is unique.
UsernameTaken(username, except) ==
    \E k \in DOMAIN users \ except : users[k].username = username
\* Variant: the owner reference of a comment is not enforced.
CommentsOwnedBy_unenforced(user_id) == {}
\* comments.owner_id -> users.id, no ON DELETE action.
CommentsOwnedBy(user_id) == {c \in DOMAIN comments : comments[c].owner_id = user_id}
\* posts.owner_id -> users.id, no ON DELETE action.
PostsReferencing(user_id) == {p \in DOMAIN posts : posts[p].owner_id = user_id}
\* filter(Post.owner_id == owner_id)
PostsOwnedBy(owner_id) == {p \in DOMAIN posts : posts[p].owner_id = owner_id}
\* An insert into posts whose owner_id matches no user violates the reference.
PostOwnerMissing(owner_id) == owner_id \notin DOMAIN users
\* An insert into comments whose post_id or owner_id matches no row violates
\* a reference.
CommentParentMissing(post_id, owner_id) ==
    post_id \notin DOMAIN posts \/ owner_id \notin DOMAIN users
\* comments.post_id -> posts.id ON DELETE CASCADE.
CommentsOfPost(post_id) == {c \in DOMAIN comments : comments[c].post_id = post_id}

\* datetime.utcnow at an insert: the clock has stayed or advanced.
Tick(t) == t \in Times /\ t >= now /\ t <= now + 1

\* Rows inserted so far.
Inserted == nextId.users + nextId.posts + nextId.comments - 3
\* The ids a caller can name: every id the table has issued and one it has not.
UserIds == 1..nextId.users
PostIds == 1..nextId.posts
CommentIds == 1..nextId.comments

Init ==
    /\ users = <<>>
    /\ posts = <<>>
    /\ comments = <<>>
    /\ nextId = [users |-> 1, posts |-> 1, comments |-> 1]
    /\ now = 0
    /\ op = "init"
    /\ txn = "none"
    /\ ret = Absent
    /\ cascaded = {}

\* ------------------------------------------------------------ users
get_user(user_id) ==
    /\ op' = "get_user"
    /\ txn' = Executed
    /\ ret' = IF user_id \in DOMAIN users THEN Row(UserRead(user_id)) ELSE Absent
    /\ UNCHANGED <<store, now, cascaded>>


\* The row whose username matches (at most one: the column is unique).
UserByUsername(username) == {k \in DOMAIN users : users[k].username = username}

get_user_by_username(username) ==
    /\ op' = "get_user_by_username"
    /\ txn' = Executed
    /\ ret' = IF UserByUsername(username) # {}
              THEN Row(UserRead(CHOOSE k \in UserByUsername(username) : TRUE))
              ELSE Absent
    /\ UNCHANGED <<store, now, cascaded>>

get_full_user_by_username(username) ==
    /\ op' = "get_full_user_by_username"
    /\ txn' = Executed
    /\ ret' = IF UserByUsername(username) # {}
              THEN Row(UserFullInfo(CHOOSE k \in UserByUsername(username) : TRUE))
              ELSE Absent
    /\ UNCHANGED <<store, now, cascaded>>

\* The row create_user adds: the credential column holds the digest.
NewUser(username, email, password, salt) ==
    [username |-> username, email |-> email,
     hashed_password |-> hash_password(password, salt)]

create_user(username, email, password, salt) ==
    /\ Inserted < MaxRows
    /\ IF UsernameTaken(username, {})
       THEN /\ txn' = FlushFailed
            /\ op' = "create_user"
            /\ ret' = Fault
            /\ UNCHANGED <<store, now, cascaded>>
       ELSE /\ users' = Extend(users, nextId.users,
                               NewUser(username, email, password, salt))
            /\ nextId' = [nextId EXCEPT !.users = @ + 1]
            /\ op' = "create_user"
            /\ txn' = Refreshed
            /\ ret' = Row(UserBase(username, email, password))
            /\ UNCHANGED <<posts, comments, now, cascaded>>

\* hash_password(update_data['password']): the hasher rejects a secret that
\* is not a string.
PasswordRejected(user) == "password" \in DOMAIN user /\ user["password"] = None

\* The value a column takes from update_data: set only when the key is
\* present and its value is not None.
Applied(update_data, key, old) ==
    IF key \in DOMAIN update_data /\ update_data[key] # None
    THEN update_data[key][1]
    ELSE old

\* update_data after 'password' is replaced by 'hashed_password'.
UserUpdateData(user, salt) ==
    [k \in (DOMAIN user \ {"password"}) \cup
           (IF "password" \in DOMAIN user THEN {"hashed_password"} ELSE {}) |->
        IF k = "hashed_password"
        THEN Some(hash_password(user["password"][1], salt))
        ELSE user[k]]

UpdatedUser(old_user, user, salt) ==
    LET update_data == UserUpdateData(user, salt) IN
    [username |-> Applied(update_data, "username", old_user.username),
     email |-> Applied(update_data, "email", old_user.email),
     hashed_password |-> Applied(update_data, "hashed_password",
                                 old_user.hashed_password)]

update_user(user_id, user, salt) ==
    IF user_id \notin DOMAIN users
    THEN /\ txn' = Executed
         /\ op' = "update_user"
         /\ ret' = Absent
         /\ UNCHANGED <<store, now, cascaded>>
    ELSE IF PasswordRejected(user)
    THEN /\ txn' = Executed
         /\ op' = "update_user"
         /\ ret' = Fault
         /\ UNCHANGED <<store, now, cascaded>>
    ELSE LET new == UpdatedUser(users[user_id], user, salt) IN
         IF UsernameTaken(new.username, {user_id})
         THEN /\ txn' = FlushFailed
              /\ op' = "update_user"
              /\ ret' = Fault
              /\ UNCHANGED <<store, now, cascaded>>
         ELSE /\ users' = [users EXCEPT ![user_id] = new]
              /\ op' = "update_user"
              /\ txn' = Refreshed
              /\ ret' = Row([id |-> user_id, username |-> new.username,
                             email |-> new.email])
              /\ UNCHANGED <<posts, comments, nextId, now, cascaded>>

delete_user(user_id) ==
    IF user_id \notin DOMAIN users
    THEN /\ txn' = Executed
         /\ op' = "delete_user"
         /\ ret' = Bool(FALSE)
         /\ UNCHANGED <<store, now, cascaded>>
    ELSE IF CommentsOwnedBy(user_id) # {} \/ PostsReferencing(user_id) # {}
    THEN /\ txn' = FlushFailed
         /\ op' = "delete_user"
         /\ ret' = Fault
         /\ UNCHANGED <<store, now, cascaded>>
    ELSE /\ users' = Remove(users, {user_id})
         /\ op' = "delete_user"
         /\ txn' = Committed
         /\ ret' = Bool(TRUE)
         /\ UNCHANGED <<posts, comments, nextId, now, cascaded>>

\* ------------------------------------------------------------ posts
get_post(id) ==
    /\ op' = "get_post"
    /\ txn' = Executed
    /\ ret' = IF id \in DOMAIN posts THEN Row(PostRead(posts, id)) ELSE Absent
    /\ UNCHANGED <<store, now, cascaded>>

\* ORDER BY created_at DESC over the selected keys: every sequence that
\* lists each key once with no row before a newer one (the store breaks
\* ties as it likes).
Ordered(tbl, keys) ==
    {s \in [1..Cardinality(keys) -> keys] :
        /\ \A i, j \in DOMAIN s : i < j =>
              /\ s[i] # s[j]
              /\ tbl[s[i]].created_at >= tbl[s[j]].created_at}

\* Variant: the offset is not applied.
Page_noskip(s, skip, limit) ==
    SubSeq(s, 1, IF limit < Len(s) THEN limit ELSE Len(s))
\* OFFSET skip LIMIT limit.
Page(s, skip, limit) ==
    SubSeq(s, skip + 1, IF skip + limit < Len(s) THEN skip + limit ELSE Len(s))

get_posts(owner_id, skip, limit) ==
    \E s \in Ordered(posts, PostsOwnedBy(owner_id)) :
        LET page == Page(s, skip, limit) IN
        /\ op' = "get_posts"
        /\ txn' = Executed
        /\ ret' = IF page # <<>>
                  THEN Rows([i \in DOMAIN page |-> PostRead(posts, page[i])])
                  ELSE Absent
        /\ UNCHANGED <<store, now, cascaded>>

create_post(title, content, owner_id, t) ==
    /\ Inserted < MaxRows
    /\ Tick(t)
    /\ IF PostOwnerMissing(owner_id)
       THEN /\ txn' = FlushFailed
            /\ op' = "create_post"
            /\ ret' = Fault
            /\ UNCHANGED <<store, now, cascaded>>
       ELSE LET new == [title |-> title, content |-> content,
                        owner_id |-> owner_id, created_at |-> t] IN
            /\ posts' = Extend(posts, nextId.posts, new)
            /\ nextId' = [nextId EXCEPT !.posts = @ + 1]
            /\ now' = t
            /\ op' = "create_post"
            /\ txn' = Refreshed
            /\ ret' = Row(PostRead(posts', nextId.posts))
            /\ UNCHANGED <<users, comments, cascaded>>

\* Variant: every column is assigned, set in the payload or not.
UpdatedPost_overwrite(old_post, post) ==
    [old_post EXCEPT
        !.title = IF "title" \in DOMAIN post /\ post["title"] # None
                  THEN post["title"][1] ELSE "",
        !.content = IF "content" \in DOMAIN post /\ post["content"] # None
                    THEN post["content"][1] ELSE ""]
UpdatedPost(old_post, post) ==
    [old_post EXCEPT !.title = Applied(post, "title", old_post.title),
                     !.content = Applied(post, "content", old_post.content)]

update_post(id, post) ==
    IF id \notin DOMAIN posts
    THEN /\ txn' = Executed
         /\ op' = "update_post"
         /\ ret' = Absent
         /\ UNCHANGED <<store, now, cascaded>>
    ELSE /\ posts' = [posts EXCEPT ![id] = UpdatedPost(posts[id], post)]
         /\ op' = "update_post"
         /\ txn' = Refreshed
         /\ ret' = Row(PostRead(posts', id))
         /\ UNCHANGED <<users, comments, nextId, now, cascaded>>

delete_post(id) ==
    IF id \notin DOMAIN posts
    THEN /\ txn' = Executed
         /\ op' = "delete_post"
         /\ ret' = Bool(FALSE)
         /\ UNCHANGED <<store, now, cascaded>>
    ELSE /\ posts' = Remove(posts, {id})
         /\ comments' = Remove(comments, CommentsOfPost(id))
         /\ cascaded' = cascaded \cup CommentsOfPost(id)
         /\ op' = "delete_post"
         /\ txn' = Committed
         /\ ret' = Bool(TRUE)
         /\ UNCHANGED <<users, nextId, now>>

\* ------------------------------------------------------------ comments
\* The filter compares Comment.id with the builtin function id, not with
\* comment_id: the statement is bound a function object and the driver
\* rejects the parameter, whatever comment_id is.
get_comment(comment_id) ==
    /\ op' = "get_comment"
    /\ txn' = Executed
    /\ ret' = Fault
    /\ UNCHANGED <<store, now, cascaded>>

get_comments(post_id, skip, limit) ==
    \E s \in Ordered(comments, CommentsOfPost(post_id)) :
        LET page == Page(s, skip, limit) IN
        /\ op' = "get_comments"
        /\ txn' = Executed
        /\ ret' = IF page # <<>>
                  THEN Rows([i \in DOMAIN page |-> CommentRead(comments, page[i])])
                  ELSE Absent
        /\ UNCHANGED <<store, now, cascaded>>

create_comment(post_id, owner_id, content, t) ==
    /\ Inserted < MaxRows
    /\ Tick(t)
    /\ IF CommentParentMissing(post_id, owner_id)
       THEN /\ txn' = FlushFailed
            /\ op' = "create_comment"
            /\ ret' = Fault
            /\ UNCHANGED <<store, now, cascaded>>
       ELSE LET new == [content |-> content, post_id |-> post_id,
                        owner_id |-> owner_id, created_at |-> t] IN
            /\ comments' = Extend(comments, nextId.comments, new)
            /\ nextId' = [nextId EXCEPT !.comments = @ + 1]
            /\ now' = t
            /\ op' = "create_comment"
            /\ txn' = Refreshed
            /\ ret' = Row(CommentRead(comments', nextId.comments))
            /\ UNCHANGED <<users, posts, cascaded>>

\* Variant: only None is skipped.
Truthy_notnone(content) == content # None
\* "if comment.content": None and the empty string are falsy.
Truthy(content) == content # None /\ content # Some("")

UpdatedComment(old_comment, content) ==
    IF Truthy(content)
    THEN [old_comment EXCEPT !.content = content[1]]
    ELSE old_comment

update_comment(id, content) ==
    IF id \notin DOMAIN comments
    THEN /\ txn' = Executed
         /\ op' = "update_comment"
         /\ ret' = Absent
         /\ UNCHANGED <<store, now, cascaded>>
    ELSE /\ comments' = [comments EXCEPT ![id] = UpdatedComment(comments[id], content)]
         /\ op' = "update_comment"
         /\ txn' = Refreshed
         /\ ret' = Row(CommentRead(comments', id))
         /\ UNCHANGED <<users, posts, nextId, now, cascaded>>

\* Variant: a missing row is a fault.
delete_comment_raises(id) ==
    IF id \notin DOMAIN comments
    THEN /\ txn' = Executed
         /\ op' = "delete_comment"
         /\ ret' = Fault
         /\ UNCHANGED <<store, now, cascaded>>
    ELSE /\ comments' = Remove(comments, {id})
         /\ op' = "delete_comment"
         /\ txn' = Committed
         /\ ret' = Bool(TRUE)
         /\ UNCHANGED <<users, posts, nextId, now, cascaded>>

delete_comment(id) ==
    IF id \notin DOMAIN comments
    THEN /\ txn' = Executed
         /\ op' = "delete_comment"
         /\ ret' = Bool(FALSE)
         /\ UNCHANGED <<store, now, cascaded>>
    ELSE /\ comments' = Remove(comments, {id})
         /\ op' = "delete_comment"
         /\ txn' = Committed
         /\ ret' = Bool(TRUE)
         /\ UNCHANGED <<users, posts, nextId, now, cascaded>>

\* ------------------------------------------------------------ inputs
Opt(S) == {None} \cup {Some(v) : v \in S}
NoFields == [f \in {} |-> None]

\* UserUpdate payloads: every subset of the fields explicitly set, each to
\* a value or to None.
UserUpdatesOver(U, E, P) ==
    {[f \in F |-> IF f = "username" THEN u ELSE IF f = "email" THEN e ELSE p] :
        F \in SUBSET {"username", "email", "password"},
        u \in Opt(U), e \in Opt(E), p \in Opt(P)}
\* PostUpdate payloads.
PostUpdatesOver(T, C) ==
    {[f \in F |-> IF f = "title" THEN t ELSE c] :
        F \in SUBSET {"title", "content"}, t \in Opt(T), c \in Opt(C)}

\* The requests of the relational checks: every owner, post, time and page,
\* one value per field.
Relations ==
    [usernames |-> {"u1", "u2"}, emails |-> {"e1"}, passwords |-> {<<"a">>},
     salts |-> {"s1"}, userUpdates |-> {NoFields},
     titles |-> {"t1"}, contents |-> {"c1"}, postUpdates |-> {NoFields},
     texts |-> {"k1"}, commentUpdates |-> {None},
     lookups |-> {1}, names |-> {"u1"}, targets |-> Ids,
     owners |-> Ids, parents |-> Ids, times |-> Times,
     skips |-> 0..MaxPage, limits |-> 0..MaxPage]

\* The requests of the field checks: every payload of the partial updates,
\* passwords on both sides of the hasher's limit, one owner, post and time,
\* updates and deletes of the first two ids of a table.
Fields ==
    [usernames |-> {"u1", "u2"}, emails |-> {"e1"},
     passwords |-> {<<"a">>, Rep(BcryptMaxBytes)},
     salts |-> {"s1"},
     userUpdates |-> UserUpdatesOver({"u2"}, {"e2"}, {Rep(BcryptMaxBytes)}),
     titles |-> {"t1"}, contents |-> {"c1"},
     postUpdates |-> PostUpdatesOver({"t2"}, {"c1"}),
     texts |-> {"k1"}, commentUpdates |-> {None},
     lookups |-> {1}, names |-> {"u1"}, targets |-> {1, 2},
     owners |-> {1}, parents |-> {1}, times |-> {0},
     skips |-> {0}, limits |-> {MaxPage}]

\* The requests of the comment checks: every content a comment update can
\* carry, comments under every post, one user and one time.
Comments ==
    [usernames |-> {"u1"}, emails |-> {"e1"}, passwords |-> {<<"a">>},
     salts |-> {"s1"}, userUpdates |-> {NoFields},
     titles |-> {"t1"}, contents |-> {"c1"}, postUpdates |-> {NoFields},
     texts |-> {"k1"}, commentUpdates |-> Opt({"", "k2"}),
     lookups |-> {1}, names |-> {"u1"}, targets |-> Ids,
     owners |-> {1}, parents |-> Ids, times |-> Times,
     skips |-> {0}, limits |-> {MaxPage}]

NextOver(D) ==
    \/ \E id \in D.lookups : get_user(id)
    \/ \E u \in D.names : get_user_by_username(u)
    \/ \E u \in D.names : get_full_user_by_username(u)
    \/ \E u \in D.usernames, e \in D.emails, p \in D.passwords, s \in D.salts :
          create_user(u, e, p, s)
    \/ \E id \in UserIds \cap D.targets, u \in D.userUpdates, s \in D.salts :
          update_user(id, u, s)
    \/ \E id \in UserIds \cap D.targets : delete_user(id)
    \/ \E id \in D.lookups : get_post(id)
    \/ \E o \in UserIds \cap D.owners, skip \in D.skips, limit \in D.limits :
          get_posts(o, skip, limit)
    \/ \E ti \in D.titles, c \in D.contents, o \in UserIds \cap D.owners,
          t \in D.times :
          create_post(ti, c, o, t)
    \/ \E id \in PostIds \cap D.targets, p \in D.postUpdates : update_post(id, p)
    \/ \E id \in PostIds \cap D.targets : delete_post(id)
    \/ \E id \in CommentIds : get_comment(id)
    \/ \E p \in PostIds \cap D.parents, skip \in D.skips, limit \in D.limits :
          get_comments(p, skip, limit)
    \/ \E p \in PostIds \cap D.parents, o \in UserIds \cap D.owners,
          c \in D.texts, t \in D.times :
          create_comment(p, o, c, t)
    \/ \E id \in CommentIds \cap D.targets, c \in D.commentUpdates : update_comment(id, c)
    \/ \E id \in CommentIds \cap D.targets : delete_comment(id)

Next == NextOver(Relations)
NextFields == NextOver(Fields)
NextComments == NextOver(Comments)

Spec == Init /\ [][Next]_vars
SpecFields == Init /\ [][NextFields]_vars
SpecComments == Init /\ [][NextComments]_vars

\* ------------------------------------------------------------ outcomes
IsAbsent(r) == r.kind = "none"
IsFault(r) == r.kind = "fault"
IsRow(r) == r.kind = "row"
IsRows(r) == r.kind = "rows"
IsBool(r, b) == r.kind = "bool" /\ r.val[1] = b

\* Some step of operation Act from the current state does not end as Post says.
Breaks(Act, Post) == ENABLED (Act /\ ~Post)

\* ------------------------------------------------------------ C1
\* What a delete_post of an existing post must leave behind.
DeletePostEffect(id) ==
    /\ IsBool(ret', TRUE)
    /\ id \notin DOMAIN posts'
    /\ \A p \in DOMAIN posts \ {id} : p \in DOMAIN posts' /\ posts'[p] = posts[p]
    /\ \A c \in DOMAIN comments' : comments'[c].post_id # id
    /\ \A c \in DOMAIN comments :
          comments[c].post_id # id =>
              c \in DOMAIN comments' /\ comments'[c] = comments[c]
    /\ users' = users

\* C1: delete_post on an existing post id returns true and removes the post
\* and every comment of that post, leaving the comments of other posts as
\* they were; a later get_comment on a comment removed that way returns
\* absence.
C1_DeletePostCascade ==
    [][/\ op' = "delete_post" =>
            \A id \in DOMAIN posts : delete_post(id) => DeletePostEffect(id)
       /\ op' = "get_comment" =>
            \A c \in cascaded : get_comment(c) => IsAbsent(ret')]_vars

\* ------------------------------------------------------------ C2
RefIntegrity ==
    /\ \A p \in DOMAIN posts : posts[p].owner_id \in DOMAIN users
    /\ \A c \in DOMAIN comments :
          /\ comments[c].owner_id \in DOMAIN users
          /\ comments[c].post_id \in DOMAIN posts

Rejected == IsFault(ret') /\ store' = store

\* C2: in every reachable state each post and comment is owned by an
\* existing user and each comment belongs to an existing post; delete_user
\* of a user who owns comments, and create_comment under a missing post or
\* owner, end in a storage fault with the store unchanged.
C2_ReferentialIntegrity ==
    /\ RefIntegrity
    /\ \A u \in DOMAIN users :
          (\E c \in DOMAIN comments : comments[c].owner_id = u) =>
              ~Breaks(delete_user(u), Rejected)
    /\ \A p \in PostIds, o \in UserIds, t \in Times :
          (p \notin DOMAIN posts \/ o \notin DOMAIN users) =>
              ~Breaks(create_comment(p, o, "k1", t), Rejected)

\* A delete_user was refused because the user, one of two, owns a comment.
C2_Witness ==
    /\ op = "delete_user"
    /\ IsFault(ret)
    /\ Cardinality(DOMAIN users) = 2
    /\ \E c \in DOMAIN comments : comments[c].owner_id \in DOMAIN users

\* ------------------------------------------------------------ C3
\* C3: create_user never stores or returns the plaintext password P: the
\* stored hashed_password differs from P, verifies against P and not against
\* P + "x", and the returned projection does not carry the password.
C3_PasswordNeverStored ==
    [][op' = "create_user" =>
        \A u \in Fields.usernames, e \in Fields.emails,
           p \in Fields.passwords, s \in Fields.salts :
            (create_user(u, e, p, s) /\ IsRow(ret')) =>
                LET h == users'[nextId.users].hashed_password IN
                /\ h # p
                /\ verify_password(p, h)
                /\ ~verify_password(p \o <<"x">>, h)
                /\ "password" \notin DOMAIN ret'.val[1]
                /\ "hashed_password" \notin DOMAIN ret'.val[1]]_vars

\* ------------------------------------------------------------ C4
\* The column an update field is written to.
Column(f) == IF f = "password" THEN "hashed_password" ELSE f

UserFrame(id, u) ==
    /\ DOMAIN users' = DOMAIN users
    /\ \A k \in DOMAIN users \ {id} : users'[k] = users[k]
    /\ \A f \in {"username", "email", "password"} \ DOMAIN u :
          users'[id][Column(f)] = users[id][Column(f)]
    /\ IsRow(ret') => ret'.val[1].id = id
    /\ posts' = posts /\ comments' = comments /\ nextId' = nextId

PostFrame(id, u) ==
    /\ DOMAIN posts' = DOMAIN posts
    /\ \A k \in DOMAIN posts \ {id} : posts'[k] = posts[k]
    /\ \A f \in {"title", "content"} \ DOMAIN u : posts'[id][f] = posts[id][f]
    /\ posts'[id].owner_id = posts[id].owner_id
    /\ posts'[id].created_at = posts[id].created_at
    /\ IsRow(ret') => ret'.val[1].id = id
    /\ users' = users /\ comments' = comments /\ nextId' = nextId

\* C4: update_user and update_post on an existing id leave every field that
\* the payload does not set at its stored value, keep the id, and modify no
\* other row of any table.
C4_PartialUpdateFrame ==
    /\ \A id \in DOMAIN users, u \in Fields.userUpdates, s \in Fields.salts :
          ~Breaks(update_user(id, u, s), UserFrame(id, u))
    /\ \A id \in DOMAIN posts, u \in Fields.postUpdates :
          ~Breaks(update_post(id, u), PostFrame(id, u))

\* An update_user changed the email of one of two users and kept the
\* username and the credential it was created with, a post being stored.
C4_Witness ==
    /\ op = "update_user"
    /\ IsRow(ret)
    /\ ret.val[1].email = "e2"
    /\ ret.val[1].username = "u1"
    /\ users[ret.val[1].id].hashed_password = hash_password(<<"a">>, "s1")
    /\ Cardinality(DOMAIN users) = 2
    /\ DOMAIN posts # {}

\* ------------------------------------------------------------ C5
NotFound(b) == (IF b THEN IsAbsent(ret') ELSE IsBool(ret', FALSE)) /\ store' = store

\* C5: an update or a delete of a user, post or comment id that matches no
\* row returns absence (update) or false (delete), not a fault, and leaves
\* the store unchanged.
C5_NotFoundNoEffect ==
    /\ \A id \in UserIds :
          id \notin DOMAIN users =>
              /\ \A u \in Fields.userUpdates, s \in Fields.salts :
                    ~Breaks(update_user(id, u, s), NotFound(TRUE))
              /\ ~Breaks(delete_user(id), NotFound(FALSE))
    /\ \A id \in PostIds :
          id \notin DOMAIN posts =>
              /\ \A u \in Fields.postUpdates :
                    ~Breaks(update_post(id, u), NotFound(TRUE))
              /\ ~Breaks(delete_post(id), NotFound(FALSE))
    /\ \A id \in CommentIds :
          id \notin DOMAIN comments =>
              /\ \A c \in Comments.commentUpdates :
                    ~Breaks(update_comment(id, c), NotFound(TRUE))
              /\ ~Breaks(delete_comment(id), NotFound(FALSE))

\* An update_comment of an unknown id returned absence while comments exist.
C5_Witness ==
    /\ op = "update_comment"
    /\ IsAbsent(ret)
    /\ DOMAIN comments # {}
    /\ DOMAIN posts # {}

\* ------------------------------------------------------------ C6
CommentFrame(id, c) ==
    /\ DOMAIN comments' = DOMAIN comments
    /\ \A k \in DOMAIN comments \ {id} : comments'[k] = comments[k]
    /\ comments'[id].post_id = comments[id].post_id
    /\ comments'[id].owner_id = comments[id].owner_id
    /\ comments'[id].created_at = comments[id].created_at
    /\ comments'[id].content = (IF c = Some("") THEN comments[id].content ELSE c[1])
    /\ IsRow(ret') /\ ret'.val[1].id = id
    /\ users' = users /\ posts' = posts /\ nextId' = nextId

\* C6: update_comment on an existing comment with the empty string leaves
\* the content as stored; with a non-empty string it stores exactly that
\* string; either way no other field of the comment and no other row changes.
C6_CommentUpdate ==
    \A id \in DOMAIN comments, c \in {Some(""), Some("k1"), Some("k2")} :
        ~Breaks(update_comment(id, c), CommentFrame(id, c))

\* An update_comment stored "k2" in one comment while another keeps "k1".
C6_Witness ==
    /\ op = "update_comment"
    /\ IsRow(ret)
    /\ ret.val[1].content = "k2"
    /\ \E k \in DOMAIN comments : comments[k].content = "k1"

\* ------------------------------------------------------------ C7
\* rows is a page of the rows of tbl with keys in keys, newest first: a set
\* of exactly skip rows, none older than the first row returned, comes before
\* it, and no other row is newer than the last row returned.
IsPage(rows, tbl, keys, skip) ==
    LET got == {rows[i].id : i \in DOMAIN rows} IN
    /\ got \subseteq keys
    /\ \A i, j \in DOMAIN rows : i < j =>
          /\ rows[i].id # rows[j].id
          /\ rows[i].created_at >= rows[j].created_at
    /\ \E dropped \in SUBSET (keys \ got) :
          /\ Cardinality(dropped) = skip
          /\ \A k \in dropped : tbl[k].created_at >= rows[1].created_at
          /\ \A k \in keys \ (got \cup dropped) :
                tbl[k].created_at <= rows[Len(rows)].created_at

Min(a, b) == IF a < b THEN a ELSE b
Max(a, b) == IF a < b THEN b ELSE a

\* r is the listing of the rows of tbl with keys in keys: absence when the
\* page is empty, else the page, each row the full projection of a stored row.
Listing(r, tbl, keys, skip, limit) ==
    LET n == Min(limit, Max(Cardinality(keys) - skip, 0)) IN
    IF n = 0
    THEN IsAbsent(r)
    ELSE /\ IsRows(r)
         /\ Len(r.val) = n
         /\ IsPage(r.val, tbl, keys, skip)
         /\ \A i \in DOMAIN r.val :
               \A f \in DOMAIN tbl[r.val[i].id] :
                   r.val[i][f] = tbl[r.val[i].id][f]

\* C7: get_posts(owner_id, skip, limit) returns the posts of that owner
\* ordered by created_at descending, without the first skip rows and with at
\* most limit rows, and absence when no row is selected; get_comments does
\* the same for the comments of a post.
C7_Listing ==
    \A skip \in 0..MaxPage, limit \in 0..MaxPage :
        /\ \A k \in UserIds :
            ~Breaks(get_posts(k, skip, limit),
                   Listing(ret', posts,
                           {p \in DOMAIN posts : posts[p].owner_id = k},
                           skip, limit))
        /\ \A k \in PostIds :
            ~Breaks(get_comments(k, skip, limit),
                   Listing(ret', comments,
                           {c \in DOMAIN comments : comments[c].post_id = k},
                           skip, limit))

\* A get_posts returned one post of an owner who also has a newer one.
C7_Witness ==
    /\ op = "get_posts"
    /\ IsRows(ret)
    /\ Len(ret.val) = 1
    /\ \E p \in DOMAIN posts :
          /\ posts[p].owner_id = ret.val[1].owner_id
          /\ posts[p].created_at > ret.val[1].created_at

\* ------------------------------------------------------------ C8
\* C8: get_comment(comment_id) returns the projection of the comment whose
\* id is comment_id when there is one, and absence, not a fault, otherwise.
C8_GetCommentById ==
    [][op' = "get_comment" =>
        \A id \in CommentIds :
            get_comment(id) =>
                IF id \in DOMAIN comments
                THEN IsRow(ret') /\ ret'.val[1] = CommentRead(comments, id)
                ELSE IsAbsent(ret')]_vars

\* ------------------------------------------------------------ C9
\* C9: when an operation has returned or failed, no transaction it began is
\* left on the session.
C9_UnitOfWorkReleased == op # "init" => txn = "none"

\* ------------------------------------------------------------ C10
\* The payload without its fields that are None.
Strip(u) == [f \in {g \in DOMAIN u : u[g] # None} |-> u[f]]

\* C10: update_user and update_post treat a field that is present with a
\* null value as an unset field: the call ends as the call without that
\* field would, with the stored value kept and no fault; this holds for
\* password too.
C10_NullFieldSkipped ==
    [][/\ op' = "update_user" =>
            \A id \in DOMAIN users, u \in Fields.userUpdates, s \in Fields.salts :
                update_user(id, u, s) => update_user(id, Strip(u), s)
       /\ op' = "update_post" =>
            \A id \in DOMAIN posts, u \in Fields.postUpdates :
                update_post(id, u) => update_post(id, Strip(u))]_vars

=============================================================================
